---- MODULE Spec2Model ----
(***************************************************************************)
(* Model of rtslam's map construction helpers (test_suite/test_main.cpp)   *)
(* and of the segment selection of                                         *)
(* HierarchicalDirectSegmentDetector::detectIn.                            *)
(*                                                                         *)
(* The map, the id factories, the state reservation of the object          *)
(* constructors and the linkTo... members are declared in headers that     *)
(* are not part of the sources at hand; they are modelled from the         *)
(* written specification (sections 3, 4.1, 4.2, 4.3).                       *)
(***************************************************************************)
EXTENDS Integers, Sequences, FiniteSets, TLC

(* ---------------- bounds of the model ---------------- *)
\* largest size_map handed to initSlam
MaxMapSize == 40
\* largest number of ids (robots + sensors + landmarks) issued on one map
MaxEntities == 6
\* largest number of candidate segments returned by the detector
MaxSegs == 2
\* largest x coordinate of a segment endpoint
MaxCoord == 2

(* ---------------- program constants ---------------- *)
\* the sizes test_main.cpp reads from the rtslam classes
\* Robot3DConstantVelocity::size(): pose 7 + linear velocity 3 + angular velocity 3
size_robCV == 13
\* SensorPinHole::size(): pose 7
size_senPH == 7
\* LandmarkAnchoredHomogeneousPoint::size()
size_lmkAHP == 7

VARIABLES
    slamMap,    \* the MapAbstract object: capacity, used states, id factories, graph
    pc,         \* map: "running", or "crashed" after a null pointer was dereferenced;
                \* detector: "call" before detectIn, "done" after it returned
    last,       \* outcome of the last call: operation, arguments, status
    set,        \* dseg::SegmentsSet filled by detector.detectSegment
    roiPtr,     \* the region of interest handed to detectIn
    featPtr,    \* the feature written by detectIn
    ret         \* detectIn's ret

vars == <<slamMap, pc, last, set, roiPtr, featPtr, ret>>
graphVars == <<slamMap, pc, last>>
detectVars == <<set, roiPtr, featPtr, ret>>

(* ---------------- helpers ---------------- *)
EmptyMap == [k \in {} |-> {}]

\* std::map operator[] assignment: m[k] = v
put(m, k, v) == [x \in (DOMAIN m) \cup {k} |-> IF x = k THEN v ELSE m[x]]

Range(m) == {m[k] : k \in DOMAIN m}

MinOf(S) == CHOOSE x \in S : \A y \in S : x <= y

\* the keys of a std::map in iteration order (ascending)
RECURSIVE Ascending(_)
Ascending(S) == IF S = {} THEN <<>> ELSE <<MinOf(S)>> \o Ascending(S \ {MinOf(S)})

RECURSIVE Flatten(_)
Flatten(ss) == IF ss = <<>> THEN <<>> ELSE Head(ss) \o Flatten(Tail(ss))

(* ---------------- MapAbstract: state reservation and id factories ---------------- *)
\* MapAbstract(size_map): an empty map of the given capacity
MapAbstract(size_map) ==
    [max_size |-> size_map, used_states |-> {},
     robotIds |-> 0, sensorIds |-> 0, landmarkIds |-> 0,
     robots |-> EmptyMap, landmarks |-> EmptyMap]

\* unusedStates(N): are there N states not yet in use
unusedStates(m, N) == m.max_size - Cardinality(m.used_states) >= N

\* first positions of the free ranges of N contiguous states
FreeStarts(m, N) ==
    {s \in 0..(m.max_size - N) : \A i \in s..(s + N - 1) : i \notin m.used_states}

\* reserveStates without the capacity test: the slot starts at the high-water mark
reserveStatesNoCheck(m, N) ==
    LET hw == IF m.used_states = {} THEN 0
              ELSE 1 + (CHOOSE x \in m.used_states : \A y \in m.used_states : y <= x)
    IN  [ok |-> TRUE, ia |-> hw..(hw + N - 1)]

\* the slot a constructor reserves for N states: first fit; not ok when no
\* free range of N states exists
reserveStates(m, N) ==
    IF FreeStarts(m, N) = {}
    THEN [ok |-> FALSE, ia |-> {}]
    ELSE LET s == MinOf(FreeStarts(m, N)) IN [ok |-> TRUE, ia |-> s..(s + N - 1)]

\* IdFactory::getId on a factory whose last issued id is c. No id is ever
\* released by the sources, so the next id is the next counter value; the
\* first id is 1 (initSomeLmks reads robots[1]->sensors[1]).
getId(c) == c + 1

(* ---------------- construction and linking (test_main.cpp) ---------------- *)
\* newRobot(slamMapPtr, name)
newRobot(m, name) ==
    LET rid  == getId(m.robotIds)
        m1   == [m EXCEPT !.robotIds = rid]
        slot == reserveStates(m1, size_robCV)
        robPtr == [id |-> rid, name |-> name, state |-> slot.ia,
                   slamMap |-> "map", sensors |-> EmptyMap]
    IN  IF ~slot.ok
        THEN [map |-> m1, status |-> "CapacityExceeded", id |-> 0]
        ELSE [map |-> [m1 EXCEPT !.used_states = @ \cup slot.ia,
                                 !.robots = put(@, rid, robPtr)],
              status |-> "ok", id |-> rid]

\* newSensor handing true to the SensorPinHole constructor whatever isInMap is
newSensorAlwaysInMap(m, r, name, isInMap) ==
    LET sid  == getId(m.sensorIds)
        m1   == [m EXCEPT !.sensorIds = sid]
        slot == reserveStates(m1, size_senPH)
        senPtr == [id |-> sid, name |-> name, isInMap |-> isInMap, state |-> slot.ia,
                   robot |-> r, observations |-> EmptyMap]
    IN  IF ~slot.ok
        THEN [map |-> m1, status |-> "CapacityExceeded", id |-> 0]
        ELSE [map |-> [m1 EXCEPT !.used_states = @ \cup slot.ia,
                                 !.robots[r].sensors = put(@, sid, senPtr)],
              status |-> "ok", id |-> sid]

\* newSensor(robPtr, name, isInMap); r is the key of robPtr in the map
newSensor(m, r, name, isInMap) ==
    LET sid  == getId(m.sensorIds)
        m1   == [m EXCEPT !.sensorIds = sid]
        slot == IF isInMap THEN reserveStates(m1, size_senPH) ELSE [ok |-> TRUE, ia |-> {}]
        senPtr == [id |-> sid, name |-> name, isInMap |-> isInMap, state |-> slot.ia,
                   robot |-> r, observations |-> EmptyMap]
    IN  IF ~slot.ok
        THEN [map |-> m1, status |-> "CapacityExceeded", id |-> 0]
        ELSE [map |-> [m1 EXCEPT !.used_states = @ \cup slot.ia,
                                 !.robots[r].sensors = put(@, sid, senPtr)],
              status |-> "ok", id |-> sid]

\* newObservation(senPtr, lmkPtr); the sensor is robots[r].sensors[s], the
\* landmark is landmarks[l]
newObservation(m, r, s, l) ==
    LET obsPtr == [id |-> 0, sensor |-> s, landmark |-> l]
    IN  [m EXCEPT !.robots[r].sensors[s].observations = put(@, obsPtr.id, obsPtr),
                  !.landmarks[l].observations = put(@, obsPtr.id, obsPtr)]

\* the (robot, sensor) keys visited by the two nested loops of newLandmark
SensorsInOrder(m) ==
    LET rs == Ascending(DOMAIN m.robots)
    IN  Flatten([i \in 1..Len(rs) |->
            LET ss == Ascending(DOMAIN m.robots[rs[i]].sensors)
            IN  [j \in 1..Len(ss) |-> <<rs[i], ss[j]>>]])

RECURSIVE FanOut(_, _, _)
FanOut(m, todo, l) ==
    IF todo = <<>> THEN m
    ELSE FanOut(newObservation(m, Head(todo)[1], Head(todo)[2], l), Tail(todo), l)

\* newLandmark without its loop over the sensors
newLandmarkNoFanOut(m) ==
    LET lid  == getId(m.landmarkIds)
        m1   == [m EXCEPT !.landmarkIds = lid]
        slot == reserveStates(m1, size_lmkAHP)
        lmkPtr == [id |-> lid, name |-> "", state |-> slot.ia,
                   slamMap |-> "map", observations |-> EmptyMap]
    IN  IF ~slot.ok
        THEN [map |-> m1, status |-> "CapacityExceeded", id |-> 0]
        ELSE [map |-> [m1 EXCEPT !.used_states = @ \cup slot.ia,
                                 !.landmarks = put(@, lid, lmkPtr)],
              status |-> "ok", id |-> lid]

\* newLandmark(slamMapPtr)
newLandmark(m) ==
    LET lid  == getId(m.landmarkIds)
        m1   == [m EXCEPT !.landmarkIds = lid]
        slot == reserveStates(m1, size_lmkAHP)
        lmkPtr == [id |-> lid, name |-> "", state |-> slot.ia,
                   slamMap |-> "map", observations |-> EmptyMap]
        m2   == [m1 EXCEPT !.used_states = @ \cup slot.ia,
                           !.landmarks = put(@, lid, lmkPtr)]
    IN  IF ~slot.ok
        THEN [map |-> m1, status |-> "CapacityExceeded", id |-> 0]
        ELSE [map |-> FanOut(m2, SensorsInOrder(m2), lid), status |-> "ok", id |-> lid]

\* initSlam(size_map) after the map was constructed: one robot, two sensors,
\* each behind its unusedStates test
initSlam(m) ==
    IF unusedStates(m, size_robCV)
    THEN LET a  == newRobot(m, "SUBMARINE")
             b  == IF unusedStates(a.map, size_senPH)
                   THEN newSensor(a.map, a.id, "FLEA", FALSE).map ELSE a.map
             c  == IF unusedStates(b, size_senPH)
                   THEN newSensor(b, a.id, "MARLIN", TRUE).map ELSE b
         IN  c
    ELSE m

\* initSomeLmks(slamMapPtr, N). robots[1]->sensors[1] on a map without robot 1
\* dereferences a null pointer; on a robot 1 without sensor 1 it inserts a
\* null sensor that newLandmark's loop then dereferences. Either way the
\* program stops there: the status is "crash" and the map is the one left by
\* the last completed iteration.
RECURSIVE initSomeLmks(_, _)
initSomeLmks(m, N) ==
    IF N = 0 THEN [map |-> m, status |-> "ok"]
    ELSE IF ~unusedStates(m, size_lmkAHP) THEN initSomeLmks(m, N - 1)
    ELSE IF 1 \notin DOMAIN m.robots THEN [map |-> m, status |-> "crash"]
    ELSE IF 1 \notin DOMAIN m.robots[1].sensors THEN [map |-> m, status |-> "crash"]
    ELSE initSomeLmks(newLandmark(m).map, N - 1)

(* ---------------- HierarchicalDirectSegmentDetector::detectIn ---------------- *)
Xs == 0..MaxCoord
Ys == 0..1
Segments == [x1 : Xs, y1 : Ys, x2 : Xs, y2 : Ys]
\* regions of interest: the origin pixel alone, or the whole image
Rois == {[x |-> 0, y |-> 0, w |-> 0, h |-> 0], [x |-> 0, y |-> 0, w |-> MaxCoord, h |-> 1]}
SegmentsSets == UNION {[1..n -> Segments] : n \in 0..MaxSegs}

\* set.segmentAt(i), i counted from 0
segmentAt(S, i) == S[i + 1]

sqrLength(seg) == (seg.x1 - seg.x2) * (seg.x1 - seg.x2) + (seg.y1 - seg.y2) * (seg.y1 - seg.y2)

\* roiPtr->isIn(v)
isIn(roi, vx, vy) == roi.x <= vx /\ vx <= roi.x + roi.w /\ roi.y <= vy /\ vy <= roi.y + roi.h

\* the loop with the test on the region of interest put back
RECURSIVE bestLoopRoi(_, _, _, _, _)
bestLoopRoi(S, roi, i, bestId, bestSqrLength) ==
    IF i >= Len(S) THEN bestId
    ELSE LET seg == segmentAt(S, i)
         IN  IF sqrLength(seg) > bestSqrLength
                /\ (isIn(roi, seg.x1, seg.y1) \/ isIn(roi, seg.x2, seg.y2))
             THEN bestLoopRoi(S, roi, i + 1, i, sqrLength(seg))
             ELSE bestLoopRoi(S, roi, i + 1, bestId, bestSqrLength)

\* the loop over the candidates: index of the best segment after visiting i..count-1
RECURSIVE bestLoop(_, _, _, _, _)
bestLoop(S, roi, i, bestId, bestSqrLength) ==
    IF i >= Len(S) THEN bestId
    ELSE LET seg == segmentAt(S, i)
         IN  IF sqrLength(seg) > bestSqrLength
             THEN bestLoop(S, roi, i + 1, i, sqrLength(seg))
             ELSE bestLoop(S, roi, i + 1, bestId, bestSqrLength)

\* the search started from a best squared length of 0
longestSegmentFromZero(S, roi) == bestLoop(S, roi, 0, -1, 0)

\* bestId after the loop
longestSegment(S, roi) == bestLoop(S, roi, 0, -1, -1)

\* detectIn writing the endpoints in the order (x2, y2, x1, y1)
detectInSwapped(S, roi, feat) ==
    LET bestId == longestSegment(S, roi)
    IN  IF Len(S) > 0 /\ bestId >= 0
        THEN LET seg == segmentAt(S, bestId)
             IN  [ret |-> TRUE,
                  feat |-> [measurement |-> [x |-> <<seg.x2, seg.y2, seg.x1, seg.y1>>,
                                             matchScore |-> 1],
                            appearancePtr |-> <<seg>>]]
        ELSE [ret |-> FALSE, feat |-> feat]

\* detectIn(image, featPtr, roiPtr) on the candidates S the detector returned
detectIn(S, roi, feat) ==
    LET bestId == IF Len(S) > 0 THEN longestSegment(S, roi) ELSE -1
    IN  IF Len(S) > 0 /\ bestId >= 0
        THEN LET seg == segmentAt(S, bestId)
             IN  [ret |-> TRUE,
                  feat |-> [measurement |-> [x |-> <<seg.x1, seg.y1, seg.x2, seg.y2>>,
                                             matchScore |-> 1],
                            appearancePtr |-> <<seg>>]]
        ELSE [ret |-> FALSE, feat |-> feat]

(* ---------------- states and steps ---------------- *)
\* a feature nothing was written to; appearancePtr is <<>> when null, else
\* <<seg>> for an AppearanceSegment made from seg
NewFeature == [measurement |-> [x |-> <<-1, -1, -1, -1>>, matchScore |-> 0],
               appearancePtr |-> <<>>]

NoCall == [op |-> "MapAbstract", status |-> "ok", arg |-> <<>>]

Issued(m) == m.robotIds + m.sensorIds + m.landmarkIds

Init ==
    /\ slamMap \in {MapAbstract(n) : n \in 0..MaxMapSize}
    /\ pc = "running"
    /\ last = NoCall
    /\ set = <<>>
    /\ roiPtr = [x |-> 0, y |-> 0, w |-> 0, h |-> 0]
    /\ featPtr = NewFeature
    /\ ret = FALSE

InitSlam ==
    /\ pc = "running"
    /\ last = NoCall
    /\ MaxEntities >= 3
    /\ slamMap' = initSlam(slamMap)
    /\ last' = [op |-> "initSlam", status |-> "ok", arg |-> <<>>]
    /\ UNCHANGED <<pc, detectVars>>

InitSomeLmks ==
    /\ pc = "running"
    /\ \E N \in 1..(MaxEntities - Issued(slamMap)) :
          LET r == initSomeLmks(slamMap, N)
          IN  /\ slamMap' = r.map
              /\ pc' = IF r.status = "crash" THEN "crashed" ELSE "running"
              /\ last' = [op |-> "initSomeLmks", status |-> r.status, arg |-> <<N>>]
    /\ UNCHANGED detectVars

NewRobot ==
    /\ pc = "running"
    /\ Issued(slamMap) < MaxEntities
    /\ LET r == newRobot(slamMap, "")
       IN  /\ slamMap' = r.map
           /\ last' = [op |-> "newRobot", status |-> r.status, arg |-> <<>>]
    /\ UNCHANGED <<pc, detectVars>>

NewSensor ==
    /\ pc = "running"
    /\ Issued(slamMap) < MaxEntities
    /\ \E rob \in DOMAIN slamMap.robots, isInMap \in BOOLEAN :
          LET r == newSensor(slamMap, rob, "", isInMap)
          IN  /\ slamMap' = r.map
              /\ last' = [op |-> "newSensor", status |-> r.status, arg |-> <<rob, isInMap>>]
    /\ UNCHANGED <<pc, detectVars>>

NewLandmark ==
    /\ pc = "running"
    /\ Issued(slamMap) < MaxEntities
    /\ LET r == newLandmark(slamMap)
       IN  /\ slamMap' = r.map
           /\ last' = [op |-> "newLandmark", status |-> r.status, arg |-> <<>>]
    /\ UNCHANGED <<pc, detectVars>>

Next == InitSlam \/ InitSomeLmks \/ NewRobot \/ NewSensor \/ NewLandmark

Spec == Init /\ [][Next]_vars

\* the detector on its own: every candidate set, region and feature
InitDetect ==
    /\ slamMap = MapAbstract(0)
    /\ pc = "call"
    /\ last = NoCall
    /\ set \in SegmentsSets
    /\ roiPtr \in Rois
    /\ featPtr = NewFeature
    /\ ret = FALSE

DetectIn ==
    /\ pc = "call"
    /\ LET r == detectIn(set, roiPtr, featPtr)
       IN  /\ ret' = r.ret
           /\ featPtr' = r.feat
    /\ pc' = "done"
    /\ UNCHANGED <<slamMap, last, set, roiPtr>>

NextDetect == DetectIn

SpecDetect == InitDetect /\ [][NextDetect]_vars

\* robots and sensors first, landmarks afterwards
NextFanOut ==
    \/ (slamMap.landmarkIds = 0 /\ (InitSlam \/ NewRobot \/ NewSensor))
    \/ NewLandmark
    \/ InitSomeLmks

SpecFanOut == Init /\ [][NextFanOut]_vars

(* ---------------- what the properties speak about ---------------- *)
SensorKeys(m) == UNION {{<<r, s>> : s \in DOMAIN m.robots[r].sensors} : r \in DOMAIN m.robots}
SensorAt(m, p) == m.robots[p[1]].sensors[p[2]]
\* the Observation objects some sensor's / some landmark's mapping holds
SensorObs(m) == UNION {Range(SensorAt(m, p).observations) : p \in SensorKeys(m)}
LandmarkObs(m) == UNION {Range(m.landmarks[l].observations) : l \in DOMAIN m.landmarks}
Observations(m) == SensorObs(m) \cup LandmarkObs(m)

Entities(m) ==
    {<<"robot", r, 0>> : r \in DOMAIN m.robots}
    \cup {<<"sensor", p[1], p[2]>> : p \in SensorKeys(m)}
    \cup {<<"landmark", l, 0>> : l \in DOMAIN m.landmarks}
SlotOf(m, e) ==
    IF e[1] = "robot" THEN m.robots[e[2]].state
    ELSE IF e[1] = "sensor" THEN m.robots[e[2]].sensors[e[3]].state
    ELSE m.landmarks[e[2]].state
RECURSIVE SumOfSizes(_, _)
SumOfSizes(m, E) ==
    IF E = {} THEN 0
    ELSE LET e == CHOOSE x \in E : TRUE
         IN  Cardinality(SlotOf(m, e)) + SumOfSizes(m, E \ {e})

\* index (from 1) of the first candidate of maximal squared length
IsWinner(S, k) ==
    /\ k \in 1..Len(S)
    /\ \A j \in 1..Len(S) : sqrLength(S[j]) <= sqrLength(S[k])
    /\ \A j \in 1..(k - 1) : sqrLength(S[j]) < sqrLength(S[k])

(* ---------------- properties ---------------- *)

\* C1: with robots and sensors created first and landmarks afterwards, the
\* graph holds S*L Observations, and every Observation is in exactly one
\* sensor's observation mapping and in exactly one landmark's.
C1_FanOutCount ==
    LET m == slamMap
    IN  /\ Cardinality(Observations(m))
             = Cardinality(SensorKeys(m)) * Cardinality(DOMAIN m.landmarks)
        /\ \A o \in Observations(m) :
              /\ Cardinality({p \in SensorKeys(m) :
                                 o \in Range(SensorAt(m, p).observations)}) = 1
              /\ Cardinality({l \in DOMAIN m.landmarks :
                                 o \in Range(m.landmarks[l].observations)}) = 1

\* C2: no two live entities of the same kind (robot, sensor, landmark,
\* observation) hold the same id.
C2_UniqueIds ==
    LET m == slamMap
    IN  /\ \A a, b \in DOMAIN m.robots : a # b => m.robots[a].id # m.robots[b].id
        /\ \A p, q \in SensorKeys(m) : p # q => SensorAt(m, p).id # SensorAt(m, q).id
        /\ \A a, b \in DOMAIN m.landmarks : a # b => m.landmarks[a].id # m.landmarks[b].id
        /\ \A o, q \in Observations(m) : o # q => o.id # q.id

\* C3: a creation that fails because the arena cannot allocate the slot
\* leaves the map as it was before the call: no id consumed, nothing registered.
C3_Transactional == [][last'.status = "CapacityExceeded" => slamMap' = slamMap]_vars

\* C4: every link is bidirectional: an entity is in its owner's mapping iff
\* its back-reference names that owner, for robot/map, sensor/robot,
\* observation/sensor and observation/landmark.
C4_Bidirectional ==
    LET m == slamMap
    IN  /\ \A r \in DOMAIN m.robots : m.robots[r].slamMap = "map"
        /\ \A l \in DOMAIN m.landmarks : m.landmarks[l].slamMap = "map"
        /\ \A p \in SensorKeys(m) : SensorAt(m, p).robot = p[1]
        /\ \A o \in Observations(m) :
              /\ \A p \in SensorKeys(m) :
                    (o \in Range(SensorAt(m, p).observations)) <=> (o.sensor = SensorAt(m, p).id)
              /\ \A l \in DOMAIN m.landmarks :
                    (o \in Range(m.landmarks[l].observations)) <=> (o.landmark = m.landmarks[l].id)

C6_ArenaSound ==
    LET m == slamMap
    IN  /\ SumOfSizes(m, Entities(m)) <= m.max_size
        /\ m.used_states \subseteq 0..(m.max_size - 1)
        /\ \A e \in Entities(m) : SlotOf(m, e) \subseteq m.used_states
        /\ \A e, f \in Entities(m) : e # f => SlotOf(m, e) \cap SlotOf(m, f) = {}

\* an arena with several slots in use in which a refused creation has just left no slot
C6_Witness ==
    /\ last.status = "CapacityExceeded"
    /\ Cardinality({e \in Entities(slamMap) : SlotOf(slamMap, e) # {}}) >= 2

\* C10: newSensor reserves a slot exactly when isInMap is true; with isInMap
\* false the used states are unchanged and the sensor is created and linked
\* to its robot whatever the free capacity is.
C10_SensorSlot ==
    [][(last'.op = "newSensor" /\ slamMap' # slamMap) =>
          LET m == slamMap
              n == slamMap'
              r == last'.arg[1]
              sid == n.sensorIds
          IN  IF last'.arg[2]
              THEN IF last'.status = "ok"
                   THEN /\ Cardinality(n.used_states \ m.used_states) = size_senPH
                        /\ m.used_states \subseteq n.used_states
                        /\ n.robots[r].sensors[sid].state = n.used_states \ m.used_states
                   ELSE n.used_states = m.used_states
              ELSE /\ n.used_states = m.used_states
                   /\ last'.status = "ok"
                   /\ sid \in DOMAIN n.robots[r].sensors
                   /\ n.robots[r].sensors[sid].robot = r
                   /\ n.robots[r].sensors[sid].state = {}
      ]_vars

\* a sensor that is not estimated, created on an arena without a single free state
C10_Witness ==
    /\ last.op = "newSensor" /\ last.status = "ok" /\ ~last.arg[2]
    /\ ~unusedStates(slamMap, 1)
    /\ slamMap.max_size > 0

\* C7: detectIn selects the first candidate of maximal squared length,
\* whether or not its endpoints lie in the region of interest.
C7_LongestFirst ==
    (pc = "done" /\ Len(set) > 0) =>
        \E k \in 1..Len(set) : IsWinner(set, k) /\ featPtr.appearancePtr = <<set[k]>>

\* two different candidates of the same length, both outside the region: the first won
C7_Witness ==
    /\ pc = "done" /\ ret /\ Len(set) = 2
    /\ set[1] # set[2] /\ sqrLength(set[1]) = sqrLength(set[2])
    /\ ~isIn(roiPtr, set[1].x1, set[1].y1) /\ ~isIn(roiPtr, set[1].x2, set[1].y2)
    /\ featPtr.appearancePtr = <<set[1]>>

\* C8: detectIn returns false, and leaves the feature untouched, exactly
\* when the candidate set is empty; a non-empty set, even of zero-length
\* segments only, yields a measurement.
C8_NoneIffEmpty ==
    pc = "done" =>
        /\ (ret = FALSE) <=> (set = <<>>)
        /\ set = <<>> => featPtr = NewFeature
        /\ set # <<>> => featPtr.appearancePtr # <<>> /\ featPtr.measurement.matchScore = 1

\* the empty candidate set: false returned, feature as it was
C8_Witness == pc = "done" /\ set = <<>> /\ ret = FALSE /\ featPtr = NewFeature

\* C9: on success the measurement is (x1, y1, x2, y2) of the winning
\* segment, in that order, and the match score is 1.
C9_Measurement ==
    (pc = "done" /\ ret) =>
        /\ \E k \in 1..Len(set) :
              /\ IsWinner(set, k)
              /\ featPtr.measurement.x = <<set[k].x1, set[k].y1, set[k].x2, set[k].y2>>
        /\ featPtr.measurement.matchScore = 1

\* the second of two candidates won, its endpoints differ in x and in y
C9_Witness ==
    /\ pc = "done" /\ ret /\ Len(set) = 2
    /\ IsWinner(set, 2)
    /\ set[2].x1 # set[2].x2 /\ set[2].y1 # set[2].y2
    /\ featPtr.measurement.x = <<set[2].x1, set[2].y1, set[2].x2, set[2].y2>>

====
